---- MODULE Spec2Model ----
(***************************************************************************)
(* A model of nvme.c, the NVM-Express command line utility.                *)
(*                                                                         *)
(* One run of the program executes one sub-command: main() hands argv to   *)
(* handle_internal_command(), which calls the sub-command's function and   *)
(* exits with its return value.  A sub-command parses its options, checks  *)
(* them, builds one command descriptor, submits it with ioctl() and shows  *)
(* the response.  The device is the environment: what ioctl() returns and  *)
(* what it leaves in the data buffer is chosen nondeterministically.       *)
(*                                                                         *)
(* 32-bit words (cdw10, cdw11, nsid, ...) are modelled as the set of their *)
(* one bits, a subset of 0..31, so that shifts and ors are exact for every *)
(* 32-bit value; quantities the code counts with (lengths, loop counts)    *)
(* are integers.                                                           *)
(***************************************************************************)
EXTENDS Integers, Sequences, FiniteSets, TLC

VARIABLES
    pc,          \* position of the process: "start" or "done"
    cmd,         \* name of the sub-command that ran ("none" before)
    args,        \* the option values the sub-command was given
    submitted,   \* the descriptors handed to ioctl(), in order
    ret,         \* value the sub-command returned (or exited with)
    diag,        \* message the sub-command's own checks wrote to stderr
    out,         \* what was shown: a sequence of output events
    heap,        \* the buffers allocated and not released
    loc,         \* local variables of a sub-command that is inside a loop
    world        \* what outlives the process: the blocks of the namespace,
                 \* the data files, the commands the calling script has run

vars == <<pc, cmd, args, submitted, ret, diag, out, heap, loc, world>>

(***************************************************************************)
(* 32-bit words as sets of bit positions.                                  *)
(***************************************************************************)
Pow2(n) == 2 ^ n

\* the word holding the non-negative int n (n < 2^31)
Bits(n) == {i \in 0..30 : (n \div Pow2(i)) % 2 = 1}

\* x << k on a 32-bit word: bits shifted past bit 31 are lost
Shl(w, k) == {b + k : b \in {x \in w : x + k <= 31}}

\* x | y
Or(a, b) == a \cup b

RECURSIVE Val(_)
\* the integer a word holds (for words below 2^31)
Val(w) == IF w = {} THEN 0
          ELSE LET b == CHOOSE x \in w : TRUE IN Pow2(b) + Val(w \ {b})

\* the width-bit field of w that starts at bit lo
Field(w, lo, width) == Val({b - lo : b \in {x \in w : x >= lo /\ x < lo + width}})

(***************************************************************************)
(* errno values and protocol constants the code uses by name.              *)
(***************************************************************************)
EIO == 5
ENOMEM == 12
ENOTBLK == 15
EINVAL == 22
ENOTTY == 25
NVME_FEAT_LBA_RANGE == 3

(***************************************************************************)
(* Inputs: the values options can take, and what the device answers.       *)
(***************************************************************************)
\* largest result word the device returns for get/set-feature
MaxResult == 65

SelVals     == {0, 1, 7, 8, 255}            \* unsigned char sel
FidVals     == {0, 1, 3, 7, 255, 256, 263}  \* unsigned int f
DataLenVals == {0, 8}                       \* unsigned int data_len
NsidVals    == {0, 1}
DevErr      == {-1, 0, 2}                   \* ioctl(): failure, success, status
ErrnoVals   == {EIO, ENOTTY}                \* errno after a failed ioctl()
StaleErrno  == {0, ENOTTY}                  \* errno when the last call succeeded
IdVals      == {-1, 0, 1}                   \* ioctl(fd, NVME_IOCTL_ID)
ResultVals  == {0, 1, 63, 64, MaxResult}    \* cmd.result

\* bytes of a logical block of the namespace
BLOCK == 512

\* the logical blocks the model follows
Lbas == {0, 1}

\* Data is followed in pieces of one logical block. The namespace holds old
\* data, the input (the --data file of write and compare, or stdin) holds two
\* blocks, the output file of read does not exist yet, and the script that
\* calls nvme has run nothing.
InitWorld ==
    [media   |-> [b \in Lbas |-> IF b = 0 THEN "old0" ELSE "old1"],
     infile  |-> <<"in0", "in1">>,
     outfile |-> <<>>,
     script  |-> <<>>]

Init ==
    /\ pc = "start"
    /\ cmd = "none"
    /\ args = [none |-> TRUE]
    /\ submitted = <<>>
    /\ ret = 0
    /\ diag = "none"
    /\ out = <<>>
    /\ heap = {}
    /\ loc = [none |-> TRUE]
    /\ world = InitWorld

\* the sub-command returns (or exits with) val, having submitted cmds,
\* written msg to stderr, shown the events of shown and left the buffers of
\* live allocated
Returned(name, a, cmds, val, msg, shown, live, w) ==
    /\ pc' = "done"
    /\ cmd' = name
    /\ args' = a
    /\ submitted' = cmds
    /\ ret' = val
    /\ diag' = msg
    /\ out' = shown
    /\ heap' = live \ {"NULL"}
    /\ loc' = loc
    /\ world' = w

\* the same for a sub-command that moves no data between the namespace and
\* the data files
Done(name, a, cmds, val, msg, shown, live) ==
    Returned(name, a, cmds, val, msg, shown, live, world)

\* err = ioctl(fd, NVME_IOCTL_..., &cmd): the descriptor handed to the
\* execution boundary, kept with the value the call returned for it
ioctl(c, err) ==
    [f \in DOMAIN c \cup {"returned"} |-> IF f = "returned" THEN err ELSE c[f]]

\* a return placed after the ioctl instead of before it
Reject_after_ioctl(name, a, msg, val) ==
    Done(name, a, <<[chan |-> "NVME_IOCTL_ADMIN_CMD"]>>, val, msg, <<>>, {})

\* a return taken before anything was submitted
Reject(name, a, msg, val) == Done(name, a, <<>>, val, msg, <<>>, {})

\* the sub-command ran to its last return statement
Finish(name, a, cmds, val, shown, live) == Done(name, a, cmds, val, "none", shown, live)

(***************************************************************************)
(* Status taxonomy                                                         *)
(***************************************************************************)
\* the NVME_SC_* codes nvme_status_to_string() has a case for
StatusCodes ==
    { <<0, "SUCCESS">>, <<1, "INVALID_OPCODE">>, <<2, "INVALID_FIELD">>,
      <<3, "CMDID_CONFLICT">>, <<4, "DATA_XFER_ERROR">>, <<5, "POWER_LOSS">>,
      <<6, "INTERNAL">>, <<7, "ABORT_REQ">>, <<8, "ABORT_QUEUE">>,
      <<9, "FUSED_FAIL">>, <<10, "FUSED_MISSING">>, <<11, "INVALID_NS">>,
      <<12, "CMD_SEQ_ERROR">>, <<128, "LBA_RANGE">>, <<129, "CAP_EXCEEDED">>,
      <<130, "NS_NOT_READY">>, <<256, "CQ_INVALID">>, <<257, "QID_INVALID">>,
      <<258, "QUEUE_SIZE">>, <<259, "ABORT_LIMIT">>, <<260, "ABORT_MISSING">>,
      <<261, "ASYNC_LIMIT">>, <<262, "FIRMWARE_SLOT">>, <<263, "FIRMWARE_IMAGE">>,
      <<264, "INVALID_VECTOR">>, <<265, "INVALID_LOG_PAGE">>,
      <<266, "INVALID_FORMAT">>, <<384, "BAD_ATTRIBUTES">>, <<640, "WRITE_FAULT">>,
      <<641, "READ_ERROR">>, <<642, "GUARD_CHECK">>, <<643, "APPTAG_CHECK">>,
      <<644, "REFTAG_CHECK">>, <<645, "COMPARE_FAILED">>, <<646, "ACCESS_DENIED">> }

\* the case of the switch that code c selects
status_case(c) ==
    LET hit == {p \in StatusCodes : p[1] = c}
    IN  IF hit = {} THEN "Unknown" ELSE (CHOOSE p \in hit : TRUE)[2]

\* nvme_status_to_string with the switch on status & 0x7ff
nvme_status_to_string_11_bits(status) == status_case(status % 2048)

\* nvme_status_to_string(status): switch (status & 0x3ff)
nvme_status_to_string(status) == status_case(status % 1024)

(***************************************************************************)
(* Wide counters and the SMART log                                         *)
(*                                                                         *)
(* A long double that holds an integer is modelled by the set of the one   *)
(* bits of that integer; the format keeps mant significant bits and every  *)
(* addition rounds to nearest, ties to even.  mant is LDBL_MANT_DIG of the *)
(* build: 64 on x86, 53 where long double is double, 113 where it is the   *)
(* IEEE quad format.                                                       *)
(***************************************************************************)
Top(S) == CHOOSE b \in S : \A c \in S : c <= b

RECURSIVE Carry(_, _)
\* S + 2^k
Carry(S, k) == IF k \in S THEN Carry(S \ {k}, k + 1) ELSE S \cup {k}

\* the nearest value with mant significant bits, ties to even
Round(S, mant) ==
    IF S = {} THEN S
    ELSE LET cut == Top(S) - mant + 1
             kept == {b \in S : b >= cut}
             half == (cut - 1) \in S
             sticky == \E b \in S : b < cut - 1
         IN  IF cut <= 0 THEN S
             ELSE IF half /\ (sticky \/ cut \in S) THEN Carry(kept, cut)
             ELSE kept

RECURSIVE int128_loop(_, _, _, _)
\* for (i = 0; i < 16; i++) { result *= 256; result += data[15 - i]; }
int128_loop(data, i, result, mant) ==
    IF i = 16 THEN result
    ELSE int128_loop(data, i + 1,
                     Round({b + 8 : b \in result} \cup Bits(data[16 - i]), mant),
                     mant)

\* int128_to_double accumulating in a 64-bit integer
int128_to_u64(data, mant) == {b \in int128_loop(data, 0, {}, 128) : b < 64}

\* int128_to_double(data): data[1] is the least significant byte
int128_to_double(data, mant) == int128_loop(data, 0, {}, mant)

\* x ~ on a 32-bit word
Not32(w) == (0..31) \ w

\* a - b in unsigned int arithmetic, for a and b below 2^31
U32Sub(a, b) == IF a >= b THEN Bits(a - b) ELSE Not32(Bits(b - a - 1))

\* show_smart_log(smart, nsid): the values printed
show_smart_log(smart, mant) ==
    [kind |-> "smart",
     temperature |-> U32Sub(smart.temperature[2] * 256 + smart.temperature[1], 273),
     data_units_read |-> int128_to_double(smart.data_units_read, mant)]

(***************************************************************************)
(* get-feature                                                             *)
(***************************************************************************)
\* d_raw stopping one byte early
d_raw_short(buf, len) == [kind |-> "raw", buf |-> buf, len |-> len - 1]

\* d_raw(buf, len): the len bytes at buf, written as they are
d_raw(buf, len) == [kind |-> "raw", buf |-> buf, len |-> len]

\* d(buf, len, width, group): the len bytes at buf as a hex dump
d(buf, len) == [kind |-> "hex", buf |-> buf, len |-> len]

\* an int converted to unsigned int
U32(n) == IF n >= 0 THEN Bits(n) ELSE Not32(Bits(-n - 1))

\* if (!nsid) { ... nsid = ioctl(fd, NVME_IOCTL_ID); if (nsid <= 0) ... }
\* nsid is an unsigned int, so nsid <= 0 holds for 0 alone
get_nsid(nsid, isblk, id, errno, failmsg) ==
    IF nsid # 0 THEN [ok |-> TRUE, nsid |-> Bits(nsid)]
    ELSE IF ~isblk
    THEN [ok |-> FALSE, msg |-> "non-block device requires namespace-id param",
          val |-> ENOTBLK]
    ELSE IF U32(id) = {}
    THEN [ok |-> FALSE, msg |-> failmsg, val |-> errno]
    ELSE [ok |-> TRUE, nsid |-> U32(id)]

\* fprintf(stderr, "NVMe Status: %s\n", nvme_status_to_string(err))
status_shown(err) ==
    [kind |-> "status", status |-> err, name |-> nvme_status_to_string(err)]

\* the descriptor nvme_feature() fills in and submits on the admin channel
nvme_feature(opcode, buf, data_len, fid, nsid, cdw11) ==
    [chan |-> "NVME_IOCTL_ADMIN_CMD", opcode |-> opcode, nsid |-> nsid,
     cdw10 |-> fid, cdw11 |-> cdw11, addr |-> buf, data_len |-> data_len]

\* bytes of struct nvme_lba_range_type
NVME_LBA_RANGE_TYPE == 64

\* show_lba_range(lbrt, nr_ranges): for (i = 0; i < nr_ranges; i++) shows lbrt[i]
show_lba_range(nr_ranges, buf_len) ==
    [kind |-> "lba_range", decoded |-> IF nr_ranges > 0 THEN nr_ranges ELSE 0,
     buf_len |-> buf_len]

\* cdw10 of get-feature
get_feature_cdw10(sel, f) == Or(Shl(Bits(sel), 8), Bits(f))

get_feature ==
    /\ pc = "start"
    /\ \E sel \in SelVals, f \in FidVals, len \in DataLenVals, raw \in BOOLEAN,
          nsid \in NsidVals, mem \in BOOLEAN, err \in DevErr, result \in ResultVals :
        LET a == [sel |-> sel, f |-> f, data_len |-> len, raw |-> raw, nsid |-> nsid]
            data_len == IF f = NVME_FEAT_LBA_RANGE THEN 4096 ELSE len
            buf == IF data_len # 0 /\ mem THEN "buf" ELSE "NULL"
            c == nvme_feature("nvme_admin_get_features", buf, data_len,
                              get_feature_cdw10(sel, f), Bits(nsid), Bits(0))
            payload == IF buf = "NULL" THEN <<>>
                       ELSE IF raw THEN <<d_raw("buf", data_len)>>
                       ELSE IF f = NVME_FEAT_LBA_RANGE THEN <<show_lba_range(result, data_len)>>
                       ELSE <<d("buf", data_len)>>
            shown == IF err = 0
                     THEN <<[kind |-> "value", f |-> f, result |-> result]>> \o payload
                     ELSE IF err > 0 THEN <<status_shown(err)>>
                     ELSE <<>>
        IN  IF sel > 7 THEN Reject("get-feature", a, "invalid 'select' param", EINVAL)
            ELSE IF f = 0 THEN Reject("get-feature", a, "feature-id required param", EINVAL)
            ELSE Finish("get-feature", a, <<ioctl(c, err)>>, err, shown, {})

(***************************************************************************)
(* id-ctrl                                                                 *)
(***************************************************************************)
\* number of entries of psd[] in struct nvme_id_ctrl
NVME_ID_CTRL_PSD == 32

NpssVals == {0, 31, 32, 63, 64, 255}        \* __u8 ctrl->npss

\* the descriptor identify() fills in and submits on the admin channel
identify(namespace, ptr, cns) ==
    [chan |-> "NVME_IOCTL_ADMIN_CMD", opcode |-> "nvme_admin_identify",
     nsid |-> namespace, cdw10 |-> Bits(cns), cdw11 |-> Bits(0), addr |-> ptr,
     data_len |-> 4096]

\* show_nvme_id_ctrl(ctrl, vs): for (i = 0; i <= ctrl->npss; i++) shows psd[i]
show_nvme_id_ctrl(npss, vs) ==
    [kind |-> "id_ctrl", npss |-> npss, psd_decoded |-> npss + 1, vs |-> vs]

id_ctrl ==
    /\ pc = "start"
    /\ \E raw \in BOOLEAN, vs \in BOOLEAN, err \in DevErr, npss \in NpssVals :
        LET a == [raw |-> raw, vs |-> vs]
            shown == IF err = 0
                     THEN IF raw THEN <<d_raw("ctrl", 4096)>>
                          ELSE <<show_nvme_id_ctrl(npss, vs)>>
                     ELSE IF err > 0 THEN <<status_shown(err)>>
                     ELSE <<>>
        IN  Finish("id-ctrl", a, <<ioctl(identify(Bits(0), "ctrl", 1), err)>>, err, shown, {})

(***************************************************************************)
(* resv-report                                                             *)
(***************************************************************************)
\* bytes of struct nvme_reservation_status before regctl_ds[], and of one
\* entry of regctl_ds[]
RESV_STATUS_HEADER == 24
RESV_REGCTL_DS == 24

NumdVals   == {-1, 0, 1, 5, 6, 12, 1024, 1025}  \* --numd; -1: not given
RawOptVals == {"none", "-r", "--raw-binary"}
RegctlVals == {0, 1, 169, 170, 65535}           \* status->regctl[0..1]

\* show_nvme_resv_report(status): for (i = 0; i < regctl; i++) shows regctl_ds[i]
show_nvme_resv_report(regctl, buf_len) ==
    [kind |-> "resv_report", regctl |-> regctl, ds_decoded |-> regctl,
     buf_len |-> buf_len]

resv_report ==
    /\ pc = "start"
    /\ \E n \in NsidVals, isblk \in BOOLEAN, id \in IdVals, d_opt \in NumdVals,
          r_opt \in RawOptVals, mem \in BOOLEAN, err \in DevErr,
          errno \in ErrnoVals, stale \in StaleErrno, regctl \in RegctlVals :
        LET a == [nsid |-> n, isblk |-> isblk, numd |-> d_opt, raw_opt |-> r_opt]
            raw == IF r_opt = "-r" THEN 0 ELSE 0      \* case 'r': raw = 0
            given == IF d_opt = -1 THEN 1 ELSE d_opt
            ns == get_nsid(n, isblk, id, stale, "failed to return namespace id")
            numd == IF given = 0 \/ given > 1024 THEN 1024 ELSE given
            c == [chan |-> "NVME_IOCTL_IO_CMD", opcode |-> "nvme_cmd_resv_report",
                  nsid |-> ns.nsid, cdw10 |-> Bits(numd), cdw11 |-> Bits(0),
                  addr |-> "status", data_len |-> numd * 4]
        IN  IF r_opt = "--raw-binary"
            THEN Reject("resv-report", a, "unknown option", EINVAL)
            ELSE IF ~ns.ok THEN Reject("resv-report", a, ns.msg, ns.val)
            ELSE IF ~mem THEN Reject("resv-report", a, "No memory for resv report", ENOMEM)
            ELSE IF err < 0
            THEN Finish("resv-report", a, <<ioctl(c, err)>>, errno, <<>>, {"status"})
            ELSE IF err # 0
            THEN Finish("resv-report", a, <<ioctl(c, err)>>, 0,
                        <<[kind |-> "error", err |-> err]>>, {"status"})
            ELSE Finish("resv-report", a, <<ioctl(c, err)>>, 0,
                        IF raw = 0 THEN <<show_nvme_resv_report(regctl, numd * 4)>>
                        ELSE <<d_raw("status", numd * 4)>>, {"status"})

(***************************************************************************)
(* format                                                                  *)
(***************************************************************************)
NsidOptVals == {-1, 1}                      \* --namespace-id; -1: not given
LbafVals == {0, 15, 16, 255}                \* unsigned char lbaf
MsVals   == {0, 1, 2}                       \* unsigned char ms
PiVals   == {0, 7, 8}                       \* unsigned char pi
PilVals  == {0, 1, 2}                       \* unsigned char pil
SesVals  == {0, 7, 8}                       \* unsigned char ses

\* the range checks of format, in the order the code makes them
format_check(lbaf, ms, pi, pil, ses) ==
    IF ms > 1 THEN "invalid pi"
    ELSE IF pil > 1 THEN "invalid pi location"
    ELSE IF ses > 7 THEN "invalid secure erase settings"
    ELSE IF lbaf > 15 THEN "invalid lbaf"
    ELSE IF pi > 7 THEN "invalid pi"
    ELSE "none"

\* cdw10 of format with pil one bit too low
format_cdw10_pil_at_7(lbaf, ms, pi, pil, ses) ==
    Or(Or(Or(Or(Shl(Bits(lbaf), 0), Shl(Bits(ms), 4)), Shl(Bits(pi), 5)),
          Shl(Bits(pil), 7)), Shl(Bits(ses), 9))

\* cdw10 of format
format_cdw10(lbaf, ms, pi, pil, ses) ==
    Or(Or(Or(Or(Shl(Bits(lbaf), 0), Shl(Bits(ms), 4)), Shl(Bits(pi), 5)),
          Shl(Bits(pil), 8)), Shl(Bits(ses), 9))

format ==
    /\ pc = "start"
    /\ \E n \in NsidOptVals, isblk \in BOOLEAN, id \in IdVals, lbaf \in LbafVals,
          ms \in MsVals, pi \in PiVals, pil \in PilVals, ses \in SesVals,
          err \in DevErr, stale \in StaleErrno :
        LET a == [nsid |-> n, isblk |-> isblk, lbaf |-> lbaf, ms |-> ms, pi |-> pi,
                  pil |-> pil, ses |-> ses]
            check == format_check(lbaf, ms, pi, pil, ses)
            nsid == IF isblk THEN U32(id) ELSE IF n = -1 THEN Not32({}) ELSE Bits(n)
            c == [chan |-> "NVME_IOCTL_ADMIN_CMD", opcode |-> "nvme_admin_format_nvm",
                  nsid |-> nsid, cdw10 |-> format_cdw10(lbaf, ms, pi, pil, ses),
                  cdw11 |-> Bits(0), addr |-> "NULL", data_len |-> 0]
            shown == IF err < 0 THEN <<>>
                     ELSE IF err # 0 THEN <<status_shown(err)>>
                     ELSE <<[kind |-> "success"]>>
        IN  IF check # "none" THEN Reject("format", a, check, EINVAL)
            ELSE IF isblk /\ nsid = {}
            THEN Reject("format", a, "failed to return namespace id", stale)
            ELSE Finish("format", a, <<ioctl(c, err)>>, err, shown, {})

(***************************************************************************)
(* fw-activate                                                             *)
(***************************************************************************)
SlotVals   == {0, 7, 8}                     \* unsigned char slot
ActionVals == {0, 1, 3, 4}                  \* unsigned char action

\* the range checks made while the options are read; first is the option
\* that comes first on the command line
fw_activate_check(slot, action, first) ==
    IF slot > 7 /\ (first = "slot" \/ action <= 3) THEN "invalid slot"
    ELSE IF action > 3 THEN "invalid action"
    ELSE "none"

\* cdw10 of fw-activate
fw_activate_cdw10(slot, action) == Or(Shl(Bits(action), 3), Bits(slot))

fw_activate ==
    /\ pc = "start"
    /\ \E slot \in SlotVals, action \in ActionVals, first \in {"slot", "action"},
          err \in DevErr :
        LET a == [slot |-> slot, action |-> action]
            check == fw_activate_check(slot, action, first)
            c == [chan |-> "NVME_IOCTL_ADMIN_CMD", opcode |-> "nvme_admin_activate_fw",
                  nsid |-> Bits(0), cdw10 |-> fw_activate_cdw10(slot, action),
                  cdw11 |-> Bits(0), addr |-> "NULL", data_len |-> 0]
            shown == IF err < 0 THEN <<>>
                     ELSE IF err # 0 THEN <<[kind |-> "error", err |-> err]>>
                     ELSE <<[kind |-> "success"]>>
        IN  IF check # "none" THEN Reject("fw-activate", a, check, EINVAL)
            ELSE Finish("fw-activate", a, <<ioctl(c, err)>>, err, shown, {})

(***************************************************************************)
(* resv-acquire, resv-register, resv-release                               *)
(***************************************************************************)
RtypeVals == {0, 1, 255}                    \* unsigned char rtype
RactVals  == {0, 7, 8}                      \* unsigned char racqa, rrela
RregaVals == {0, 2, 7, 8}                   \* unsigned char rrega
IekeyVals == {0, 1, 2}                      \* unsigned char iekey
CptplVals == {0, 3, 4}                      \* unsigned char cptpl

\* a reservation command on the I/O channel with its payload on the stack
resv_cmd(opcode, nsid, cdw10, addr, data_len) ==
    [chan |-> "NVME_IOCTL_IO_CMD", opcode |-> opcode, nsid |-> nsid,
     cdw10 |-> cdw10, cdw11 |-> Bits(0), addr |-> addr, data_len |-> data_len]

\* err = ioctl(...); if (err < 0) return errno; else if (err != 0) fprintf(...);
\* else printf(...); return 0;
resv_finish(name, a, c, err, errno) ==
    IF err < 0 THEN Finish(name, a, <<ioctl(c, err)>>, errno, <<>>, {})
    ELSE IF err # 0 THEN Finish(name, a, <<ioctl(c, err)>>, 0, <<[kind |-> "error", err |-> err]>>, {})
    ELSE Finish(name, a, <<ioctl(c, err)>>, 0, <<[kind |-> "success"]>>, {})

\* cdw10 of resv-acquire and of resv-release
resv_acquire_cdw10(rtype, iekey, racqa) ==
    Or(Or(Shl(Bits(rtype), 8), Shl(Bits(iekey), 3)), Bits(racqa))

resv_acquire ==
    /\ pc = "start"
    /\ \E n \in NsidVals, isblk \in BOOLEAN, id \in IdVals, rtype \in RtypeVals,
          racqa \in RactVals, iekey \in {0, 1}, err \in DevErr,
          errno \in ErrnoVals, stale \in StaleErrno :
        LET a == [nsid |-> n, isblk |-> isblk, rtype |-> rtype, racqa |-> racqa,
                  iekey |-> iekey]
            ns == get_nsid(n, isblk, id, stale, "failed to return namespace id")
            c == resv_cmd("nvme_cmd_resv_acquire", ns.nsid,
                          resv_acquire_cdw10(rtype, iekey, racqa), "payload", 16)
        IN  IF ~ns.ok THEN Reject("resv-acquire", a, ns.msg, ns.val)
            ELSE IF racqa > 7 THEN Reject("resv-acquire", a, "invalid racqa", EINVAL)
            ELSE resv_finish("resv-acquire", a, c, err, errno)

\* the range checks of resv-register
resv_register_check(iekey, cptpl) ==
    IF iekey > 1 THEN "invalid iekey"
    ELSE IF cptpl > 3 THEN "invalid cptpl"
    ELSE "none"

\* cdw10 of resv-register
resv_register_cdw10(cptpl, iekey, rrega) ==
    Or(Or(Shl(Bits(cptpl), 30), Shl(Bits(iekey), 3)), Bits(rrega))

resv_register ==
    /\ pc = "start"
    /\ \E n \in NsidVals, isblk \in BOOLEAN, id \in IdVals, rrega \in RregaVals,
          iekey \in IekeyVals, cptpl \in CptplVals, err \in DevErr,
          errno \in ErrnoVals, stale \in StaleErrno :
        LET a == [nsid |-> n, isblk |-> isblk, rrega |-> rrega, iekey |-> iekey,
                  cptpl |-> cptpl]
            ns == get_nsid(n, isblk, id, stale, "failed to return namespace id")
            check == resv_register_check(iekey, cptpl)
            c == resv_cmd("nvme_cmd_resv_register", ns.nsid,
                          resv_register_cdw10(cptpl, iekey, rrega), "payload", 16)
        IN  IF ~ns.ok THEN Reject("resv-register", a, ns.msg, ns.val)
            ELSE IF check # "none" THEN Reject("resv-register", a, check, EINVAL)
            ELSE resv_finish("resv-register", a, c, err, errno)

\* the range checks of resv-release
resv_release_check(iekey, rrela) ==
    IF iekey > 1 THEN "invalid iekey"
    ELSE IF rrela > 7 THEN "invalid rrela"
    ELSE "none"

resv_release ==
    /\ pc = "start"
    /\ \E n \in NsidVals, isblk \in BOOLEAN, id \in IdVals, rtype \in RtypeVals,
          rrela \in RactVals, iekey \in IekeyVals, err \in DevErr,
          errno \in ErrnoVals, stale \in StaleErrno :
        LET a == [nsid |-> n, isblk |-> isblk, rtype |-> rtype, rrela |-> rrela,
                  iekey |-> iekey]
            ns == get_nsid(n, isblk, id, stale, "failed to return namespace id")
            check == resv_release_check(iekey, rrela)
            c == resv_cmd("nvme_cmd_resv_release", ns.nsid,
                          resv_acquire_cdw10(rtype, iekey, rrela), "crkey", 8)
        IN  IF ~ns.ok THEN Reject("resv-release", a, ns.msg, ns.val)
            ELSE IF check # "none" THEN Reject("resv-release", a, check, EINVAL)
            ELSE resv_finish("resv-release", a, c, err, errno)

(***************************************************************************)
(* set-feature                                                             *)
(***************************************************************************)
\* unsigned int v: 0, 1 and 0xffffffff
ValueVals == {Bits(0), Bits(1), Not32({})}

set_feature ==
    /\ pc = "start"
    /\ \E f \in FidVals, given \in BOOLEAN, v \in ValueVals, len \in DataLenVals,
          nsid \in NsidVals, mem \in BOOLEAN, err \in DevErr, result \in ResultVals :
        LET a == [f |-> f, value_given |-> given, v |-> v, data_len |-> len,
                  nsid |-> nsid]
            \* int val = -1; case 'v': get_int(optarg, &v); val = (int)v;
            val_is_minus_1 == ~given \/ v = Not32({})
            data_len == IF f = NVME_FEAT_LBA_RANGE THEN 4096 ELSE len
            buf == IF data_len # 0 /\ mem THEN "buf" ELSE "NULL"
            c == nvme_feature("nvme_admin_set_features", buf, data_len, Bits(f),
                              Bits(nsid), v)
            payload == IF buf = "NULL" THEN <<>>
                       ELSE IF f = NVME_FEAT_LBA_RANGE
                       THEN <<show_lba_range(result, data_len)>>
                       ELSE <<d("buf", data_len)>>
            shown == IF err = 0
                     THEN <<[kind |-> "value", f |-> f, result |-> result]>> \o payload
                     ELSE IF err > 0 THEN <<status_shown(err)>>
                     ELSE <<>>
        IN  IF val_is_minus_1
            THEN Reject("set-feature", a, "feature value required param", EINVAL)
            ELSE IF f = 0 THEN Reject("set-feature", a, "feature-id required param", EINVAL)
            ELSE Finish("set-feature", a, <<ioctl(c, err)>>, err, shown, {})

(***************************************************************************)
(* get-log, error-log                                                      *)
(***************************************************************************)
\* bytes of struct nvme_error_log_page
NVME_ERROR_LOG_PAGE == 64

LidVals     == {0, 2, 65536}                \* unsigned int lid
LogLenVals  == {0, 2, 4, 512, 262148}       \* unsigned int log_len
EntriesVals == {-1, 0, 1, 64}               \* --log-entries; -1: not given

\* the descriptor nvme_get_log() fills in and submits on the admin channel
nvme_get_log(log_addr, data_len, dw10, nsid) ==
    [chan |-> "NVME_IOCTL_ADMIN_CMD", opcode |-> "nvme_admin_get_log_page",
     nsid |-> nsid, cdw10 |-> dw10, cdw11 |-> Bits(0), addr |-> log_addr,
     data_len |-> data_len]

\* lid | (((len / 4) - 1) << 16) in unsigned int arithmetic
log_cdw10(lid, len) == Or(Bits(lid), Shl(U32Sub(len \div 4, 1), 16))

\* if (!err) { show or dump } else if (err > 0) fprintf(status)
log_shown(err, raw, formatted, buf, len) ==
    IF err = 0 THEN (IF raw THEN <<d_raw(buf, len)>> ELSE <<formatted>>)
    ELSE IF err > 0 THEN <<status_shown(err)>>
    ELSE <<>>

get_log ==
    /\ pc = "start"
    /\ \E n \in NsidOptVals, lid \in LidVals, log_len \in LogLenVals,
          raw \in BOOLEAN, err \in DevErr :
        LET a == [nsid |-> n, lid |-> lid, log_len |-> log_len, raw |-> raw]
            nsid == IF n = -1 THEN Not32({}) ELSE Bits(n)
            c == nvme_get_log("log", log_len, log_cdw10(lid, log_len), nsid)
        IN  IF log_len = 0
            THEN Reject("get-log", a, "non-zero log-len is required param", EINVAL)
            ELSE Finish("get-log", a, <<ioctl(c, err)>>, err,
                        log_shown(err, raw, d("log", log_len), "log", log_len), {})

get_error_log ==
    /\ pc = "start"
    /\ \E n \in NsidOptVals, e \in EntriesVals, raw \in BOOLEAN, err \in DevErr :
        LET a == [nsid |-> n, log_entries |-> e, raw |-> raw]
            nsid == IF n = -1 THEN Not32({}) ELSE Bits(n)
            log_entries == IF e = -1 THEN 64 ELSE e
            size == log_entries * NVME_ERROR_LOG_PAGE
            c == nvme_get_log("err_log", size, log_cdw10(1, size), nsid)
        IN  IF log_entries = 0
            THEN Reject("error-log", a, "non-zero log-entires is required param", EINVAL)
            ELSE Finish("error-log", a, <<ioctl(c, err)>>, err,
                        log_shown(err, raw,
                                  [kind |-> "error_log", entries |-> log_entries],
                                  "err_log", size), {})

(***************************************************************************)
(* id-ns                                                                   *)
(***************************************************************************)
NlbafVals == {0, 15, 16, 255}               \* __u8 ns->nlbaf

\* show_nvme_id_ns(ns, id, vs): for (i = 0; i <= ns->nlbaf; i++) shows lbaf[i]
show_nvme_id_ns(nlbaf, vs) ==
    [kind |-> "id_ns", nlbaf |-> nlbaf, lbaf_decoded |-> nlbaf + 1, vs |-> vs]

id_ns ==
    /\ pc = "start"
    /\ \E n \in NsidVals, isblk \in BOOLEAN, id \in IdVals, raw \in BOOLEAN,
          vs \in BOOLEAN, err \in DevErr, stale \in StaleErrno, nlbaf \in NlbafVals :
        LET a == [nsid |-> n, isblk |-> isblk, raw |-> raw, vs |-> vs]
            ns == get_nsid(n, isblk, id, stale, "perror(devicename)")
            c == identify(ns.nsid, "ns", 0)
            shown == IF err = 0
                     THEN IF raw THEN <<d_raw("ns", 4096)>>
                          ELSE <<show_nvme_id_ns(nlbaf, vs)>>
                     ELSE IF err > 0 THEN <<status_shown(err)>>
                     ELSE <<>>
        IN  IF ~ns.ok THEN Reject("id-ns", a, ns.msg, ns.val)
            ELSE Finish("id-ns", a, <<ioctl(c, err)>>, err, shown, {})

(***************************************************************************)
(* security-send                                                           *)
(***************************************************************************)
FileVals    == {"none", "unreadable", "ok"} \* --file: not given, open() fails, opens
SecSizeVals == {0, 512}                     \* sb.st_size
SecpVals    == {0, 255}                     \* unsigned char secp
SpspVals    == {0, 65535}                   \* unsigned short spsp

\* secp << 24 | spsp << 8
sec_cdw10(secp, spsp) == Or(Shl(Bits(secp), 24), Shl(Bits(spsp), 8))

sec_send ==
    /\ pc = "start"
    /\ \E file \in FileVals, size \in SecSizeVals, secp \in SecpVals,
          spsp \in SpspVals, statfail \in BOOLEAN, mem \in BOOLEAN, err \in DevErr,
          errno \in ErrnoVals :
        LET a == [file |-> file, size |-> size, secp |-> secp, spsp |-> spsp]
            c == [chan |-> "NVME_IOCTL_ADMIN_CMD", opcode |-> "nvme_admin_security_send",
                  nsid |-> Bits(0), cdw10 |-> sec_cdw10(secp, spsp), cdw11 |-> Bits(0),
                  addr |-> "sec_buf", data_len |-> size]
        IN  IF file # "ok"
            THEN Reject("security-send", a, "no firmware file provided", EINVAL)
            ELSE IF statfail THEN Reject("security-send", a, "perror(fstat)", errno)
            ELSE IF ~mem
            THEN Reject("security-send", a, "No memory for security size", ENOMEM)
            ELSE IF err < 0
            THEN Finish("security-send", a, <<ioctl(c, err)>>, errno, <<>>, {"sec_buf"})
            ELSE Finish("security-send", a, <<ioctl(c, err)>>, err,
                        IF err # 0 THEN <<[kind |-> "error", err |-> err]>>
                        ELSE <<[kind |-> "success"]>>, {"sec_buf"})

(***************************************************************************)
(* fw-download: the handler up to its loop, then one loop iteration per    *)
(* step                                                                    *)
(***************************************************************************)
MaxChunks == 3

FwSizeVals == {0, 6, 4096, 8192, 12288}     \* sb.st_size
XferVals   == {-1, 0, 100, 4096, 8192}      \* --xfer; -1: not given

\* what the memory posix_memalign() returned holds: the handler opens the
\* firmware file and takes its size, and has no read() that loads it, so the
\* content is whatever was there
FwMemVals == {"firmware image", "other bytes"}

\* min with its branches exchanged
min_exchanged(x, y) == IF x > y THEN x ELSE y

\* #define min(x, y) x > y ? y : x;
min(x, y) == IF x > y THEN y ELSE x

\* the descriptor of one firmware chunk
fw_chunk(l, xfer_size) ==
    [chan |-> "NVME_IOCTL_ADMIN_CMD", opcode |-> "nvme_admin_download_fw",
     nsid |-> Bits(0), cdw10 |-> U32Sub(xfer_size \div 4, 1),
     cdw11 |-> Bits(l.offset \div 4), addr |-> "fw_buf", addr_off |-> l.fw_buf,
     data_len |-> xfer_size]

fw_download ==
    /\ pc = "start"
    /\ \E file \in FileVals, offset_given \in BOOLEAN, x \in XferVals,
          fw_size \in FwSizeVals, statfail \in BOOLEAN, mem \in BOOLEAN,
          errno \in ErrnoVals, fw_mem \in FwMemVals :
        LET a == [file |-> file, xfer |-> x, offset_given |-> offset_given,
                  size |-> fw_size]
            given == IF x = -1 THEN 4096 ELSE x
            xfer_size == IF given % 4096 # 0 THEN 4096 ELSE given
        IN  \* "o:" is in the option string, the switch has no case 'o'
            IF offset_given THEN Reject("fw-download", a, "unknown option", EINVAL)
            ELSE IF file # "ok"
            THEN Reject("fw-download", a, "no firmware file provided", EINVAL)
            ELSE IF statfail THEN Reject("fw-download", a, "perror(fstat)", errno)
            ELSE IF fw_size % 4 # 0
            THEN Reject("fw-download", a, "Invalid size for f/w image", EINVAL)
            ELSE IF ~mem THEN Reject("fw-download", a, "No memory for f/w size", ENOMEM)
            ELSE IF fw_size = 0
            THEN Finish("fw-download", a, <<>>, 0, <<[kind |-> "success"]>>, {"fw_buf"})
            ELSE /\ pc' = "fw_loop"
                 /\ cmd' = "fw-download"
                 /\ args' = a
                 /\ loc' = [fw_size |-> fw_size, xfer_size |-> xfer_size,
                            offset |-> 0, fw_buf |-> 0, fw_mem |-> fw_mem]
                 /\ heap' = {"fw_buf"}
                 /\ UNCHANGED <<submitted, ret, diag, out, world>>

\* the loop without its break: a chunk the device refused is followed by the
\* next one
fw_download_chunk_no_break ==
    /\ pc = "fw_loop"
    /\ Len(submitted) < MaxChunks
    /\ \E err \in DevErr, errno \in ErrnoVals :
        LET xfer_size == min(loc.xfer_size, loc.fw_size)
            sent == Append(submitted, ioctl(fw_chunk(loc, xfer_size), err))
            left == loc.fw_size - xfer_size
        IN  IF err < 0
            THEN Done(cmd, args, sent, errno, "perror(ioctl)", <<>>, heap)
            ELSE IF left = 0
            THEN Done(cmd, args, sent, err, "none", <<[kind |-> "success"]>>, heap)
            ELSE /\ loc' = [fw_size |-> left, xfer_size |-> xfer_size,
                            offset |-> loc.offset + xfer_size,
                            fw_buf |-> loc.fw_buf + xfer_size,
                            fw_mem |-> loc.fw_mem]
                 /\ submitted' = sent
                 /\ UNCHANGED <<pc, cmd, args, ret, diag, out, heap, world>>

\* one pass of while (fw_size > 0), and the return when the loop ends
fw_download_chunk ==
    /\ pc = "fw_loop"
    /\ Len(submitted) < MaxChunks
    /\ \E err \in DevErr, errno \in ErrnoVals :
        LET xfer_size == min(loc.xfer_size, loc.fw_size)
            sent == Append(submitted, ioctl(fw_chunk(loc, xfer_size), err))
            left == loc.fw_size - xfer_size
        IN  IF err < 0
            THEN Done(cmd, args, sent, errno, "perror(ioctl)", <<>>, heap)
            ELSE IF err # 0
            THEN Done(cmd, args, sent, err, "none",
                      <<[kind |-> "error", err |-> err]>>, heap)
            ELSE IF left = 0
            THEN Done(cmd, args, sent, 0, "none", <<[kind |-> "success"]>>, heap)
            ELSE /\ loc' = [fw_size |-> left, xfer_size |-> xfer_size,
                            offset |-> loc.offset + xfer_size,
                            fw_buf |-> loc.fw_buf + xfer_size,
                            fw_mem |-> loc.fw_mem]
                 /\ submitted' = sent
                 /\ UNCHANGED <<pc, cmd, args, ret, diag, out, heap, world>>

(***************************************************************************)
(* read, write, compare                                                    *)
(***************************************************************************)
DataSizeVals == {0, 512, 1024}              \* unsigned int data_size
NblocksVals  == {0, 1}                      \* io.nblocks, one less than the count
PrinfoVals   == {0, 15, 16}                 \* __u8 prinfo
DataFileVals == {"std", "file", "unopenable"} \* no --data, a file, open() < 0

\* what a piece of malloc'ed memory nobody assigned can hold: any bytes, those
\* of the second block of the input included
HeapVals == {"stale", "in1"}

takes_input(command) == command \in {"write", "compare"}

\* read(dfd, buffer, data_size) of write and compare: the buffer holds the
\* first data_size bytes of the input, in pieces of one block
read_input(data_size) ==
    [i \in 1..(data_size \div BLOCK) |-> world.infile[i]]

\* what NVME_IOCTL_SUBMIT_IO leaves on the namespace for a write from buf:
\* nblocks + 1 blocks from block 0 on, taken from the buffer and, past its
\* end, from the memory that follows it
device_write(nblocks, buf, past) ==
    [b \in Lbas |-> IF b > nblocks THEN world.media[b]
                    ELSE IF b + 1 <= Len(buf) THEN buf[b + 1] ELSE past]

\* what NVME_IOCTL_SUBMIT_IO leaves in a buffer of data_size bytes for a
\* read: nblocks + 1 blocks from block 0 on, the rest of the buffer as
\* malloc returned it
device_read(nblocks, data_size, uninit) ==
    [i \in 1..(data_size \div BLOCK) |->
        IF i <= nblocks + 1 THEN world.media[i - 1] ELSE uninit]

\* write(dfd, buffer, data_size) on a file opened O_WRONLY | O_CREAT: the
\* bytes replace the start of the file, what it held beyond them stays
write_output(buf) ==
    buf \o SubSeq(world.outfile, Len(buf) + 1, Len(world.outfile))

submit_io(opcode, command) ==
    /\ pc = "start"
    /\ \E data_size \in DataSizeVals, nblocks \in NblocksVals,
          prinfo \in PrinfoVals, data \in DataFileVals,
          show \in BOOLEAN, dry_run \in BOOLEAN, mem \in BOOLEAN,
          iofail \in BOOLEAN, err \in DevErr, uninit \in HeapVals :
        LET a == [data_size |-> data_size, nblocks |-> nblocks, prinfo |-> prinfo,
                  data |-> data, show |-> show, dry_run |-> dry_run]
            buffer == IF mem THEN "buffer" ELSE "NULL"
            io == [chan |-> "NVME_IOCTL_SUBMIT_IO", opcode |-> opcode,
                   control |-> Shl(Bits(prinfo), 10), nblocks |-> nblocks,
                   addr |-> buffer]
            printed == IF show THEN <<[kind |-> "command", io |-> io]>> ELSE <<>>
            success == <<[kind |-> "success"]>>
            got == device_read(nblocks, data_size, uninit)
        IN  \* the device moves data only through a buffer that exists
            /\ err = 0 => mem
            /\ IF prinfo > 15 THEN Reject(command, a, "(prinfo > 0xf)", EINVAL)
               ELSE IF data = "unopenable" THEN Reject(command, a, "perror(optarg)", EINVAL)
               ELSE IF data_size = 0 THEN Reject(command, a, "data size not provided", EINVAL)
               ELSE IF takes_input(command) /\ iofail
               THEN Done(command, a, <<>>, EINVAL, "failed to read buffer from input file", <<>>, {buffer})
               ELSE IF show /\ dry_run THEN Finish(command, a, <<>>, 0, printed, {})
               ELSE IF err < 0 THEN Done(command, a, <<ioctl(io, err)>>, 0, "perror(ioctl)", printed, {})
               ELSE IF err > 0 THEN Finish(command, a, <<ioctl(io, err)>>, 0, printed \o <<status_shown(err)>>, {})
               ELSE IF command = "write"
               THEN Returned(command, a, <<ioctl(io, err)>>, 0, "none", printed \o success, {},
                             [world EXCEPT !.media = device_write(nblocks, read_input(data_size), uninit)])
               ELSE IF command = "compare"
               THEN Finish(command, a, <<ioctl(io, err)>>, 0, printed \o success, {})
               ELSE IF iofail
               THEN Done(command, a, <<ioctl(io, err)>>, EINVAL, "failed to write buffer to output file", printed, {buffer})
               ELSE IF data = "file"
               THEN Returned(command, a, <<ioctl(io, err)>>, 0, "none", printed \o success, {},
                             [world EXCEPT !.outfile = write_output(got)])
               ELSE Finish(command, a, <<ioctl(io, err)>>, 0,
                           printed \o <<[kind |-> "data", bytes |-> got]>> \o success, {})

compare   == submit_io("nvme_cmd_compare", "compare")
read_cmd  == submit_io("nvme_cmd_read", "read")
write_cmd == submit_io("nvme_cmd_write", "write")

\* run_test of the regress script: the command that ended with status 0 is
\* followed by the next nvme command, a new process on the same namespace
\* and the same files; any other status ends the script. The script keeps
\* what the finished command was and whether the device completed it.
next_command ==
    /\ pc = "done"
    /\ ret = 0
    /\ world.script = <<>>
    /\ pc' = "start"
    /\ cmd' = "none"
    /\ args' = [none |-> TRUE]
    /\ submitted' = <<>>
    /\ ret' = 0
    /\ diag' = "none"
    /\ out' = <<>>
    /\ heap' = {}
    /\ loc' = [none |-> TRUE]
    /\ world' = [world EXCEPT !.script =
                     <<[cmd |-> cmd, args |-> args,
                        ok |-> diag = "none" /\ Len(submitted) = 1
                                  /\ submitted[1].returned = 0]>>]

(***************************************************************************)
(* smart-log, fw-log, list-ns, get-ns-id                                   *)
(***************************************************************************)
\* a 16-byte counter of zero
ZeroBytes == [i \in 1..16 |-> 0]

\* temperature[0], temperature[1]: 268 K, 0 K, 272 K, 273 K, 300 K, 65535 K
TemperatureVals == {<<12, 1>>, <<0, 0>>, <<16, 1>>, <<17, 1>>, <<44, 1>>, <<255, 255>>}

\* significant bits of a long double: IEEE double, x87 extended, IEEE quad
MantVals == {53, 64, 113}

\* bytes of struct nvme_smart_log and of struct nvme_firmware_log_page
NVME_SMART_LOG == 512
NVME_FW_LOG    == 512

get_smart_log ==
    /\ pc = "start"
    /\ \E n \in NsidOptVals, raw \in BOOLEAN, err \in DevErr, t \in TemperatureVals,
          mant \in MantVals :
        LET a == [nsid |-> n, raw |-> raw]
            nsid == IF n = -1 THEN Not32({}) ELSE Bits(n)
            smart == [temperature |-> t, data_units_read |-> ZeroBytes]
            c == nvme_get_log("smart_log", NVME_SMART_LOG,
                              log_cdw10(2, NVME_SMART_LOG), nsid)
        IN  Finish("smart-log", a, <<ioctl(c, err)>>, err,
                   log_shown(err, raw, show_smart_log(smart, mant), "smart_log",
                             NVME_SMART_LOG), {})

get_fw_log ==
    /\ pc = "start"
    /\ \E raw \in BOOLEAN, err \in DevErr :
        LET a == [raw |-> raw]
            c == nvme_get_log("fw_log", NVME_FW_LOG, log_cdw10(3, NVME_FW_LOG),
                              Not32({}))
        IN  Done("fw-log", a, <<ioctl(c, err)>>, err,
                 IF err < 0 THEN "perror(fw log)" ELSE "none",
                 log_shown(err, raw, [kind |-> "fw_log"], "fw_log", NVME_FW_LOG), {})

list_ns ==
    /\ pc = "start"
    /\ \E n \in NsidVals, err \in DevErr :
        LET a == [nsid |-> n]
            shown == IF err = 0 THEN <<[kind |-> "ns_list"]>>
                     ELSE IF err > 0 THEN <<status_shown(err)>>
                     ELSE <<>>
        IN  Finish("list-ns", a, <<ioctl(identify(Bits(n), "ns_list", 2), err)>>, err, shown, {})

\* int nsid = ioctl(fd, NVME_IOCTL_ID): no command descriptor is involved
get_ns_id ==
    /\ pc = "start"
    /\ \E isblk \in BOOLEAN, id \in IdVals, errno \in StaleErrno :
        LET a == [isblk |-> isblk]
        IN  IF ~isblk
            THEN Reject("get-ns-id", a, "requesting nsid from non-block device", ENOTBLK)
            ELSE IF id <= 0 THEN Reject("get-ns-id", a, "perror(devicename)", errno)
            ELSE Finish("get-ns-id", a, <<>>, 0,
                        <<[kind |-> "namespace-id", nsid |-> id]>>, {})

(***************************************************************************)
(* security-recv                                                           *)
(***************************************************************************)
\* how the size and the raw flag are asked for: not at all, by the short
\* option, by the long option
SizeOptVals   == {"none", "-x", "--size"}
RawFlagVals   == {"none", "-b", "--raw-binary"}

sec_recv ==
    /\ pc = "start"
    /\ \E size_opt \in SizeOptVals, raw_opt \in RawFlagVals, file \in BOOLEAN,
          secp \in SecpVals, spsp \in SpspVals, mem \in BOOLEAN, err \in DevErr,
          errno \in ErrnoVals :
        LET a == [size |-> size_opt, raw |-> raw_opt, file |-> file, secp |-> secp,
                  spsp |-> spsp]
            sec_size == IF size_opt = "none" THEN 0 ELSE 512
            raw == raw_opt # "none"
            sec_buf == IF sec_size # 0 THEN "sec_buf" ELSE "NULL"
            c == [chan |-> "NVME_IOCTL_ADMIN_CMD", opcode |-> "nvme_admin_security_recv",
                  nsid |-> Bits(0), cdw10 |-> sec_cdw10(secp, spsp), cdw11 |-> Bits(0),
                  addr |-> sec_buf, data_len |-> sec_size]
            shown == IF err # 0 THEN <<[kind |-> "error", err |-> err]>>
                     ELSE IF ~raw
                     THEN <<[kind |-> "success"], d(sec_buf, sec_size)>>
                     ELSE IF sec_size # 0
                     \* d_raw((unsigned char *)&sec_buf, sec_size)
                     THEN <<d_raw("&sec_buf", sec_size)>>
                     ELSE <<>>
        IN  \* the option string is "f:p:s:t:": -x and -b are not in it, and
            \* the switch has no case 'f'
            IF size_opt = "-x" \/ raw_opt = "-b" \/ file
            THEN Reject("security-recv", a, "unknown option", EINVAL)
            ELSE IF sec_size # 0 /\ ~mem
            THEN Reject("security-recv", a, "No memory for security size", ENOMEM)
            ELSE IF err < 0 THEN Finish("security-recv", a, <<ioctl(c, err)>>, errno, <<>>, {sec_buf})
            ELSE Finish("security-recv", a, <<ioctl(c, err)>>, err, shown, {sec_buf})

(***************************************************************************)
(* flush                                                                   *)
(***************************************************************************)
flush ==
    /\ pc = "start"
    /\ \E n \in NsidOptVals, err \in DevErr, errno \in ErrnoVals :
        LET a == [nsid |-> n]
            c == [chan |-> "NVME_IOCTL_IO_CMD", opcode |-> "nvme_cmd_flush",
                  nsid |-> IF n = -1 THEN Not32({}) ELSE Bits(n),
                  cdw10 |-> Bits(0), cdw11 |-> Bits(0), addr |-> "NULL", data_len |-> 0]
        IN  IF err < 0 THEN Finish("flush", a, <<ioctl(c, err)>>, errno, <<>>, {})
            ELSE IF err # 0
            THEN Finish("flush", a, <<ioctl(c, err)>>, 0, <<status_shown(err)>>, {})
            ELSE Finish("flush", a, <<ioctl(c, err)>>, 0, <<[kind |-> "success"]>>, {})

(***************************************************************************)
(* admin-passthru and io-passthru                                          *)
(***************************************************************************)
OpcodeVals   == {0, 2}                      \* __u8 cmd.opcode
MetaLenVals  == {0, 4}                      \* __u32 cmd.metadata_len

\* passthru_check without the test for both flags
passthru_check_one_test(data_len, r, w, readfail) ==
    IF data_len = 0 THEN "none"
    ELSE IF ~r /\ ~w THEN "data direction not given"
    ELSE IF w /\ readfail THEN "failed to read write buffer"
    ELSE "none"

\* the checks made when a data buffer is asked for: the message of the one
\* that fails, or "none"
passthru_check(data_len, r, w, readfail) ==
    IF data_len = 0 THEN "none"
    ELSE IF ~r /\ ~w THEN "data direction not given"
    ELSE IF r /\ w THEN "command can't be both read and write"
    ELSE IF w /\ readfail THEN "failed to read write buffer"
    ELSE "none"

\* nvme_passthru(argc, argv, ioctl_cmd)
nvme_passthru(name, ioctl_cmd) ==
    /\ pc = "start"
    /\ \E opcode \in OpcodeVals, data_len \in DataLenVals, metadata_len \in MetaLenVals,
          r \in BOOLEAN, w \in BOOLEAN, raw \in BOOLEAN, show \in BOOLEAN,
          dry_run \in BOOLEAN, mem \in BOOLEAN, memm \in BOOLEAN,
          readfail \in BOOLEAN, err \in DevErr :
        LET a == [opcode |-> opcode, data_len |-> data_len,
                  metadata_len |-> metadata_len, r |-> r, w |-> w, raw |-> raw,
                  show |-> show, dry_run |-> dry_run]
            metadata == IF metadata_len # 0 /\ memm THEN "meta" ELSE "NULL"
            addr == IF data_len # 0 /\ mem THEN "buf" ELSE "NULL"
            c == [chan |-> ioctl_cmd, opcode |-> opcode, nsid |-> Bits(0),
                  cdw10 |-> Bits(0), cdw11 |-> Bits(0), addr |-> addr,
                  data_len |-> data_len, metadata |-> metadata,
                  metadata_len |-> metadata_len]
            shown == IF err < 0 THEN <<>>
                     ELSE IF ~raw
                     THEN <<status_shown(err)>> \o
                          (IF addr # "NULL" /\ r /\ err = 0
                           THEN <<d("buf", data_len)>> ELSE <<>>)
                     ELSE IF err = 0 /\ addr # "NULL" /\ r
                     THEN <<d_raw("buf", data_len)>>
                     ELSE <<>>
            check == passthru_check(data_len, r, w, readfail)
        IN  IF check # "none"
            THEN Done(name, a, <<>>, EINVAL, check, <<>>, {addr, metadata})
            ELSE IF show /\ dry_run
            THEN Finish(name, a, <<>>, 0, <<[kind |-> "command"]>>, {addr, metadata})
            ELSE Finish(name, a, <<ioctl(c, err)>>, err,
                        (IF show THEN <<[kind |-> "command"]>> ELSE <<>>) \o shown,
                        {addr, metadata})

\* io-passthru handed the admin ioctl
io_passthru_on_admin == nvme_passthru("io-passthru", "NVME_IOCTL_ADMIN_CMD")

io_passthru == nvme_passthru("io-passthru", "NVME_IOCTL_IO_CMD")

admin_passthru == nvme_passthru("admin-passthru", "NVME_IOCTL_ADMIN_CMD")

Next ==
    \/ get_feature
    \/ admin_passthru
    \/ io_passthru
    \/ id_ctrl
    \/ resv_report
    \/ format
    \/ fw_activate
    \/ resv_acquire
    \/ resv_register
    \/ resv_release
    \/ set_feature
    \/ get_log
    \/ get_error_log
    \/ id_ns
    \/ sec_send
    \/ fw_download
    \/ fw_download_chunk
    \/ compare
    \/ read_cmd
    \/ write_cmd
    \/ get_smart_log
    \/ get_fw_log
    \/ list_ns
    \/ get_ns_id
    \/ sec_recv
    \/ flush

Spec == Init /\ [][Next]_vars

(***************************************************************************)
(* The status taxonomy on its own: any status value is classified.         *)
(***************************************************************************)
\* largest status value classified
MaxStatus == 2100

InitStatus ==
    /\ pc = "start"
    /\ cmd = "none"
    /\ args \in {[status |-> s] : s \in 0..MaxStatus}
    /\ submitted = <<>>
    /\ ret = 0
    /\ diag = "none"
    /\ out = <<>>
    /\ heap = {}
    /\ loc = [none |-> TRUE]
    /\ world = InitWorld

classify_status ==
    /\ pc = "start"
    /\ pc' = "done"
    /\ cmd' = "nvme_status_to_string"
    /\ out' = <<status_shown(args.status)>>
    /\ UNCHANGED <<args, submitted, ret, diag, heap, loc, world>>

SpecStatus == InitStatus /\ [][classify_status]_vars

(***************************************************************************)
(* The SMART log decoder on its own: any log buffer is shown.              *)
(***************************************************************************)
BytePos  == {1, 2, 7, 8, 9, 10, 15, 16}
ByteVals == {1, 128, 255}

\* 16-byte counters with at most two non-zero bytes, and the largest one
CounterVals ==
    {ZeroBytes, [i \in 1..16 |-> 255]}
    \cup {[ZeroBytes EXCEPT ![p] = v] : p \in BytePos, v \in ByteVals}
    \cup {[ZeroBytes EXCEPT ![p] = v, ![q] = u] :
              p \in BytePos, q \in BytePos, v \in ByteVals, u \in ByteVals}

SmartLogs ==
    {[temperature |-> t, data_units_read |-> ZeroBytes] : t \in TemperatureVals}
    \cup {[temperature |-> <<44, 1>>, data_units_read |-> c] : c \in CounterVals}

InitSmart ==
    /\ pc = "start"
    /\ cmd = "none"
    /\ args \in {[smart |-> l, mant |-> m] : l \in SmartLogs, m \in MantVals}
    /\ submitted = <<>>
    /\ ret = 0
    /\ diag = "none"
    /\ out = <<>>
    /\ heap = {}
    /\ loc = [none |-> TRUE]
    /\ world = InitWorld

decode_smart_log ==
    /\ pc = "start"
    /\ pc' = "done"
    /\ cmd' = "show_smart_log"
    /\ out' = <<show_smart_log(args.smart, args.mant)>>
    /\ UNCHANGED <<args, submitted, ret, diag, heap, loc, world>>

SpecSmart == InitSmart /\ [][decode_smart_log]_vars

(***************************************************************************)
(* The regress script: nvme write and nvme read, one after the other       *)
(***************************************************************************)
SpecRegress == Init /\ [][write_cmd \/ read_cmd \/ next_command]_vars

(***************************************************************************)
(* Properties.                                                             *)
(***************************************************************************)
Submitted == Len(submitted) > 0

\* C1: get-feature submits cdw10 = ((select & 0x7) << 8) | (feature_id & 0xFF):
\* the feature id never reaches bits 8 and above.
C1_FeaturePacking ==
    (cmd = "get-feature" /\ Submitted) =>
        submitted[1].cdw10 = Or(Shl(Bits(args.sel % 8), 8), Bits(args.f % 256))

DirectionMsgs == {"data direction not given", "command can't be both read and write"}

IsPassthru == cmd \in {"admin-passthru", "io-passthru"}

\* C2 as stated: in passthrough, data length > 0 with neither or both of the
\* read and write flags is refused with a direction error and nothing is
\* submitted; data length 0 with exactly one flag passes and is submitted.
C2_DirectionAsStated ==
    IsPassthru =>
        /\ (args.data_len > 0 /\ args.r = args.w) =>
               (diag \in DirectionMsgs /\ ret = EINVAL /\ ~Submitted)
        /\ (args.data_len = 0 /\ args.r # args.w) =>
               (diag \notin DirectionMsgs /\ Submitted)

\* C2 amended: as stated, except that data length 0 with exactly one flag is
\* submitted unless show-command and dry-run are both given; then the
\* command is shown and nothing is submitted.
C2_Direction ==
    IsPassthru =>
        /\ (args.data_len > 0 /\ args.r = args.w) =>
               (diag \in DirectionMsgs /\ ret = EINVAL /\ ~Submitted)
        /\ (args.data_len = 0 /\ args.r # args.w) =>
               (diag = "none" /\ (Submitted <=> ~(args.show /\ args.dry_run)))

StatusNames == {p[2] : p \in StatusCodes} \cup {"Unknown"}

\* C3: the classification depends on the low 10 bits of the status alone and
\* is total: every status gets one of the names of the closed set, the name
\* of its low 10 bits, which is "Unknown" exactly for the codes without a
\* case.
C3_StatusTotal ==
    cmd = "nvme_status_to_string" =>
        LET s == args.status
            low == s % 1024
            name == out[1].name
        IN  /\ name \in StatusNames
            /\ \A p \in StatusCodes : low = p[1] => name = p[2]
            /\ (low \notin {p[1] : p \in StatusCodes}) => name = "Unknown"
            /\ \A t \in {low, low + 1024, low + 2048} : nvme_status_to_string(t) = name

C3_Witness ==
    /\ cmd = "nvme_status_to_string" /\ args.status = 1024 + 645
    /\ out[1].name = "COMPARE_FAILED"

\* the integer sum of b[i] * 256^i, as the set of its one bits
ExactValue(data) == UNION {{8 * (i - 1) + b : b \in Bits(data[i])} : i \in 1..16}

\* number of bits from the highest to the lowest one bit
SigBits(S) == IF S = {} THEN 0 ELSE Top(S) - (CHOOSE b \in S : \A c \in S : b <= c) + 1

SmartShown == cmd = "show_smart_log"

\* C4 as stated: the decoder returns the sum of b[i] * 256^i for every input.
C4_ExactAsStated ==
    SmartShown => out[1].data_units_read = ExactValue(args.smart.data_units_read)

\* C4 amended: the decoder returns the sum of b[i] * 256^i whenever the sum
\* has no more significant bits than the long double mantissa; 16 zero bytes
\* decode to 0, the bytes of 2^64 to 2^64, and a sum of 2^64 or more never
\* decodes to less than 2^64, nor to less than its own highest power of two.
C4_WideDecode ==
    SmartShown =>
        LET data == args.smart.data_units_read
            exact == ExactValue(data)
            got == out[1].data_units_read
        IN  /\ SigBits(exact) <= args.mant => got = exact
            /\ data = ZeroBytes => got = {}
            /\ data = [ZeroBytes EXCEPT ![9] = 1] => got = {64}
            /\ exact # {} => (got # {} /\ Top(got) >= Top(exact))
            /\ (\E b \in exact : b >= 64) => got # {b \in exact : b < 64}

C4_Witness ==
    /\ SmartShown /\ args.mant = 64
    /\ args.smart.data_units_read = [ZeroBytes EXCEPT ![9] = 1, ![1] = 255]
    /\ out[1].data_units_read = {64, 8}

\* the unsigned number printed for word w is the integer v
ShownIs(w, v) == v >= 0 /\ w = Bits(v)

\* C5: the temperature shown is (temperature[1] * 256 + temperature[0]) - 273
\* as a signed number: 268 K is shown as -5.
C5_Celsius ==
    SmartShown =>
        ShownIs(out[1].temperature,
                args.smart.temperature[2] * 256 + args.smart.temperature[1] - 273)

Shown(kind) == {i \in DOMAIN out : out[i].kind = kind}

\* C6: resv-report decodes no more registrant descriptors than fit in the
\* numd * 4 bytes of the buffer after the fixed header.
C6_ResvBounded ==
    \A i \in Shown("resv_report") :
        LET len == out[i].buf_len
            fit == IF len < RESV_STATUS_HEADER THEN 0
                   ELSE (len - RESV_STATUS_HEADER) \div RESV_REGCTL_DS
        IN  out[i].ds_decoded <= fit

\* C7: identify-controller decodes at most the 32 power-state descriptors of
\* the layout, and the LBA-range feature at most the 64 range descriptors of
\* its 4096-byte buffer.
C7_TailBounded ==
    /\ \A i \in Shown("id_ctrl") : out[i].psd_decoded <= NVME_ID_CTRL_PSD
    /\ \A i \in Shown("lba_range") :
           out[i].decoded <= out[i].buf_len \div NVME_LBA_RANGE_TYPE

\* C8: a reservation report buffer of numd * 4 bytes that is shorter than the
\* report header is never handed to the formatted decoder.
C8_TruncatedRejected ==
    (cmd = "resv-report" /\ Submitted /\ submitted[1].data_len < RESV_STATUS_HEADER)
        => Shown("resv_report") = {}

\* the field of the submitted cdw10 at bits lo .. lo + width - 1 holds v
Packed(v, lo, width) == v < 2 ^ width /\ Field(submitted[1].cdw10, lo, width) = v

\* C9: a sub-command that packs fields into cdw10 submits nothing when a
\* value does not fit its field, so every field of a submitted cdw10 holds
\* the value that was supplied for it.
C9_FieldsFit ==
    Submitted =>
        /\ cmd = "get-feature" => Packed(args.f, 0, 8) /\ Packed(args.sel, 8, 3)
        /\ cmd = "format" =>
               /\ Packed(args.lbaf, 0, 4) /\ Packed(args.ms, 4, 1)
               /\ Packed(args.pi, 5, 3) /\ Packed(args.pil, 8, 1)
               /\ Packed(args.ses, 9, 3)
        /\ cmd = "fw-activate" => Packed(args.slot, 0, 3) /\ Packed(args.action, 3, 2)
        /\ cmd = "resv-acquire" =>
               /\ Packed(args.racqa, 0, 3) /\ Packed(args.iekey, 3, 1)
               /\ Packed(args.rtype, 8, 8)
        /\ cmd = "resv-register" =>
               /\ Packed(args.rrega, 0, 3) /\ Packed(args.iekey, 3, 1)
               /\ Packed(args.cptpl, 30, 2)
        /\ cmd = "resv-release" =>
               /\ Packed(args.rrela, 0, 3) /\ Packed(args.iekey, 3, 1)
               /\ Packed(args.rtype, 8, 8)

C2_Witness ==
    /\ cmd = "io-passthru" /\ args.data_len > 0 /\ args.r /\ args.w
    /\ diag = "command can't be both read and write"

\* the diagnostics of a failed validation: a field out of range, a required
\* parameter missing, inconsistent direction flags, a zero length
ValidationMsgs ==
    DirectionMsgs \cup
    { "invalid 'select' param", "invalid lbaf", "invalid pi", "invalid pi location",
      "invalid secure erase settings", "invalid slot", "invalid action",
      "invalid racqa", "invalid iekey", "invalid cptpl", "invalid rrela",
      "(prinfo > 0xf)", "Invalid size for f/w image",
      "feature-id required param", "feature value required param",
      "non-block device requires namespace-id param", "no firmware file provided",
      "data size not provided", "non-zero log-len is required param",
      "non-zero log-entires is required param" }

\* C10: whenever a sub-command reports a validation failure, nothing has been
\* handed to the execution boundary in that invocation, and the invocation
\* ends there
C10_NoSubmitOnInvalid == diag \in ValidationMsgs => submitted = <<>> /\ pc = "done"

\* a format run refused for an out-of-range field
C10_Witness ==
    /\ pc = "done"
    /\ cmd = "format"
    /\ diag \in ValidationMsgs
    /\ ret = EINVAL
    /\ submitted = <<>>

\* the execution boundary returned something other than 0 for a command of
\* this run
BoundaryFailed == \E i \in DOMAIN submitted : submitted[i].returned # 0

\* C11: a sub-command for which the execution boundary returned a non-zero
\* result (negative or positive) returns a non-zero value to its caller.
C11_FailureReturned == (pc = "done" /\ BoundaryFailed) => ret # 0

\* C12: every buffer a sub-command allocated is released by the time it
\* returns, on every path.
C12_BuffersReleased == pc = "done" => heap = {}

\* C13: no descriptor with a non-zero data length and a null data pointer is
\* submitted: a failed allocation ends the sub-command with ENOMEM first.
C13_NoNullBuffer ==
    \A i \in DOMAIN submitted :
        ("data_len" \in DOMAIN submitted[i] /\ submitted[i].data_len # 0)
            => submitted[i].addr # "NULL"

RawCmds == {"id-ctrl", "id-ns", "get-log", "smart-log", "error-log", "fw-log"}

\* the command was submitted once and the execution boundary returned 0
Succeeded == pc = "done" /\ Len(submitted) = 1 /\ submitted[1].returned = 0

\* the bytes of the buffer named in the descriptor, all data_len of them
BufferBytes ==
    [kind |-> "raw", buf |-> submitted[1].addr, len |-> submitted[1].data_len]

\* C14: in raw mode the identify and log sub-commands emit on success the
\* bytes of the response buffer, from its first byte to its full length, and
\* nothing else.
C14_RawIsBuffer ==
    (cmd \in RawCmds /\ Succeeded /\ args.raw) => out = <<BufferBytes>>

\* a raw error-log of 64 entries: 4096 bytes
C14_Witness ==
    /\ cmd = "error-log"
    /\ Succeeded
    /\ args.raw
    /\ out = <<BufferBytes>>
    /\ out[1].len = 64 * NVME_ERROR_LOG_PAGE

\* C15: get-feature in raw mode, succeeding with a data buffer, puts on
\* standard output the data_len bytes of the buffer and no formatted text.
C15_RawOnly ==
    (cmd = "get-feature" /\ Succeeded /\ args.raw /\ submitted[1].addr # "NULL")
        => out = <<BufferBytes>>

\* C16: security-recv in raw mode emits on success the sec_size bytes of the
\* receive buffer whose address is in the descriptor.
C16_RecvRaw ==
    (cmd = "security-recv" /\ Succeeded /\ args.raw # "none"
        /\ submitted[1].data_len # 0)
        => out = <<BufferBytes>>

\* C17: resv-report asked for raw output (by either spelling of the option)
\* whose command succeeds emits the raw buffer bytes, not formatted text.
C17_RawReachable ==
    (cmd = "resv-report" /\ pc = "done" /\ args.raw_opt # "none"
        /\ diag \notin {"non-block device requires namespace-id param",
                        "failed to return namespace id", "No memory for resv report"}
        /\ ~BoundaryFailed)
        => (Submitted /\ out = <<BufferBytes>>)

\* resv-report given -r, the command succeeding: the formatted report is shown
C17_Witness ==
    /\ cmd = "resv-report"
    /\ args.raw_opt = "-r"
    /\ Succeeded
    /\ Shown("resv_report") # {}
    /\ Shown("raw") = {}

\* the sub-commands with a decoder of their own
SpecificCmds ==
    {"id-ctrl", "id-ns", "list-ns", "get-log", "smart-log", "error-log", "fw-log",
     "get-feature", "security-recv", "resv-report"}

\* what is shown besides statuses, errors and the echo of the command
Payload == {i \in DOMAIN out : out[i].kind \notin {"status", "error", "command"}}

PositiveStatus == pc = "done" /\ Len(submitted) = 1 /\ submitted[1].returned > 0

\* C18: on a positive status the specific sub-commands show no payload,
\* while a passthrough read still shows the data buffer.
C18_PayloadOnStatus ==
    PositiveStatus =>
        /\ cmd \in SpecificCmds => Payload = {}
        /\ (IsPassthru /\ args.r /\ submitted[1].addr # "NULL") => Payload # {}

AdminCmds ==
    {"id-ctrl", "id-ns", "list-ns", "get-log", "smart-log", "error-log", "fw-log",
     "get-feature", "set-feature", "format", "fw-download", "fw-activate",
     "security-send", "security-recv", "admin-passthru"}

NvmCmds ==
    {"flush", "resv-acquire", "resv-register", "resv-release", "resv-report",
     "read", "write", "compare", "io-passthru"}

IoChannels == {"NVME_IOCTL_IO_CMD", "NVME_IOCTL_SUBMIT_IO"}

\* C19: an admin sub-command submits on the admin channel only and an NVM
\* sub-command on an I/O channel only; admin-passthru and io-passthru use the
\* admin and the I/O channel whatever the opcode.
C19_NoCrossSubmit ==
    \A i \in DOMAIN submitted :
        /\ cmd \in AdminCmds \cup NvmCmds
        /\ cmd \in AdminCmds => submitted[i].chan = "NVME_IOCTL_ADMIN_CMD"
        /\ cmd \in NvmCmds => submitted[i].chan \in IoChannels
        /\ cmd = "io-passthru" => submitted[i].chan = "NVME_IOCTL_IO_CMD"

\* io-passthru given an opcode that is an admin opcode too, on the I/O channel
C19_Witness ==
    /\ cmd = "io-passthru"
    /\ Submitted
    /\ submitted[1].opcode = 2
    /\ submitted[1].chan = "NVME_IOCTL_IO_CMD"

AllChunksOk ==
    /\ cmd = "fw-download"
    /\ pc \in {"fw_loop", "done"}
    /\ diag = "none"
    /\ \A i \in DOMAIN submitted : submitted[i].returned = 0

\* byte offset of chunk i: the lengths of the chunks before it
RECURSIVE ChunkOffset(_)
ChunkOffset(i) == IF i = 1 THEN 0 ELSE ChunkOffset(i - 1) + submitted[i - 1].data_len

\* the chunks submitted so far are laid out for the transfer size xfer: in
\* offset order from 0, without gap or overlap, each of the smaller of xfer
\* and the remaining bytes, and they cover the image when the run is over
ChunksLaidOut(xfer) ==
    /\ \A i \in DOMAIN submitted :
           /\ submitted[i].data_len <= xfer
           /\ submitted[i].data_len <= args.size - ChunkOffset(i)
           /\ submitted[i].data_len \in {xfer, args.size - ChunkOffset(i)}
           /\ submitted[i].data_len > 0
           /\ submitted[i].cdw10 = Bits(submitted[i].data_len \div 4 - 1)
           /\ submitted[i].cdw11 = Bits(ChunkOffset(i) \div 4)
           /\ submitted[i].addr_off = ChunkOffset(i)
    /\ pc = "done" => ChunkOffset(Len(submitted) + 1) = args.size

\* an image whose size is not a multiple of 4 is refused, nothing submitted
OddImageRefused ==
    (cmd = "fw-download" /\ args.file = "ok" /\ ~args.offset_given
        /\ args.size % 4 # 0 /\ diag # "perror(fstat)")
        => (pc = "done" /\ submitted = <<>> /\ diag = "Invalid size for f/w image")

\* the transfer size the caller asked for (4096 when none was given)
XferGiven == IF args.xfer = -1 THEN 4096 ELSE args.xfer

\* the transfer size the loop starts with: the one asked for when it is a
\* multiple of 4096, else 4096
XferUsed == IF XferGiven % 4096 # 0 THEN 4096 ELSE XferGiven

\* C22 as stated: for every positive transfer size the chunks are laid out
\* for that transfer size.
C22_ChunksAsStated ==
    /\ (AllChunksOk /\ XferGiven > 0) => ChunksLaidOut(XferGiven)
    /\ OddImageRefused

\* C22, amended: for a positive transfer size, replaced by 4096 when it is
\* not a multiple of 4096, the successful chunks are in increasing offset
\* order from 0, contiguous, each of min(transfer size, remaining) bytes with
\* cdw10 = data_len/4 - 1 and cdw11 = offset/4, and cover the image; an image
\* whose size is not a multiple of 4 is refused with nothing submitted.
C22_Chunks ==
    /\ (AllChunksOk /\ XferGiven > 0) => ChunksLaidOut(XferUsed)
    /\ OddImageRefused

\* 12288 bytes sent as a chunk of 8192 and a chunk of 4096
C22_Witness ==
    /\ AllChunksOk
    /\ pc = "done"
    /\ args.size = 12288
    /\ args.xfer = 8192
    /\ Len(submitted) = 2
    /\ submitted[2].data_len = 4096
    /\ submitted[2].cdw11 = Bits(2048)

\* C23: the chunk loop of fw-download ends after finitely many submissions:
\* every pass that stays in the loop leaves fewer bytes to send.
C23_LoopTerminates ==
    [][(pc = "fw_loop" /\ pc' = "fw_loop") => loc'.fw_size < loc.fw_size]_vars

\* C24: the buffer region every chunk of fw-download points to holds the
\* bytes of the firmware file.
C24_ChunksAreFile ==
    (cmd = "fw-download" /\ Submitted) => loc.fw_mem = "firmware image"

FormatRangeMsgs ==
    {"invalid pi", "invalid pi location", "invalid secure erase settings",
     "invalid lbaf"}

FormatInRange ==
    /\ args.lbaf <= 15
    /\ args.ms <= 1
    /\ args.pi <= 7
    /\ args.pil <= 1
    /\ args.ses <= 7

\* C25: format accepts exactly the inputs with lbaf <= 15, ms <= 1, pi <= 7,
\* pil <= 1 and ses <= 7, and submits
\* cdw10 = lbaf | ms << 4 | pi << 5 | pil << 8 | ses << 9, from which each
\* field is recovered unchanged.
C25_FormatPacking ==
    (cmd = "format" /\ pc = "done") =>
        /\ FormatInRange <=> diag \notin FormatRangeMsgs
        /\ Submitted =>
               /\ Val(submitted[1].cdw10) =
                      args.lbaf + 16 * args.ms + 32 * args.pi + 256 * args.pil
                          + 512 * args.ses
               /\ Field(submitted[1].cdw10, 0, 4) = args.lbaf
               /\ Field(submitted[1].cdw10, 4, 1) = args.ms
               /\ Field(submitted[1].cdw10, 5, 3) = args.pi
               /\ Field(submitted[1].cdw10, 8, 1) = args.pil
               /\ Field(submitted[1].cdw10, 9, 3) = args.ses
               /\ submitted[1].cdw10 \subseteq 0..11

\* format submitted with every field at its largest value
C25_Witness ==
    /\ cmd = "format"
    /\ Submitted
    /\ args.lbaf = 15 /\ args.ms = 1 /\ args.pi = 7 /\ args.pil = 1 /\ args.ses = 7
    /\ Val(submitted[1].cdw10) = 4095

\* C26: get-log with a non-zero length L submits data_len = L, the dword
\* count L/4 - 1 at bits 16 and above of cdw10 and the log id below them, so
\* that (dword count + 1) * 4 <= L.
C26_LogLength ==
    (cmd = "get-log" /\ Submitted) =>
        /\ submitted[1].data_len = args.log_len
        /\ args.log_len >= 4
        /\ Field(submitted[1].cdw10, 16, 16) = args.log_len \div 4 - 1
        /\ Field(submitted[1].cdw10, 0, 16) = args.lid
        /\ (Field(submitted[1].cdw10, 16, 16) + 1) * 4 <= args.log_len

\* C27: resv-report submits cdw10 = 1024 and data_len = 4096 when numd is not
\* given, is 0 or exceeds 1024, and cdw10 = numd, data_len = numd * 4
\* otherwise.
C27_FullByDefault ==
    (cmd = "resv-report" /\ Submitted) =>
        LET full == args.numd = -1 \/ args.numd = 0 \/ args.numd > 1024
            numd == IF full THEN 1024 ELSE args.numd
        IN  /\ submitted[1].cdw10 = Bits(numd)
            /\ submitted[1].data_len = numd * 4

\* the sub-command asked the device handle for the namespace id
AskedNsid ==
    \/ cmd \in {"id-ns", "resv-acquire", "resv-register", "resv-release",
                "resv-report"} /\ args.nsid = 0 /\ args.isblk
    \/ cmd = "format" /\ args.isblk

\* C28: a namespace id query that failed with a negative result is not used
\* as a namespace id: nothing is submitted with it.
C28_NsidFailure ==
    (AskedNsid /\ Submitted) => submitted[1].nsid # U32(-1)

\* C29: with the dry-run option read, write, compare, admin-passthru and
\* io-passthru submit nothing, with or without show-command.
C29_DryRun ==
    (cmd \in {"read", "write", "compare", "admin-passthru", "io-passthru"}
        /\ args.dry_run) => submitted = <<>>

\* C30: set-feature given a value v and a non-zero feature id f submits
\* cdw10 = f and cdw11 = v, whatever v is; it reports the value as missing
\* only when none was given.
C30_AnyValue ==
    (cmd = "set-feature" /\ pc = "done") =>
        /\ (args.value_given /\ args.f # 0) =>
               /\ Submitted
               /\ submitted[1].cdw10 = Bits(args.f)
               /\ submitted[1].cdw11 = args.v
        /\ diag = "feature value required param" => ~args.value_given

\* the read or write that has returned was completed by the device and
\* moved its data
IoDone ==
    /\ pc = "done"
    /\ diag = "none"
    /\ Len(submitted) = 1
    /\ submitted[1].returned = 0

\* a read has returned that follows a completed write of the same block
\* count and data size (the start block is 0 throughout)
ReadAfterWrite ==
    /\ cmd = "read"
    /\ IoDone
    /\ Len(world.script) = 1
    /\ world.script[1].cmd = "write"
    /\ world.script[1].ok
    /\ world.script[1].args.nblocks = args.nblocks
    /\ world.script[1].args.data_size = args.data_size

\* the first data_size bytes of the input of the write
WrittenBytes == SubSeq(world.infile, 1, args.data_size \div BLOCK)

\* everything the read put on its output: the data file, or standard output
\* when no file was given
ReadOutput ==
    IF args.data = "file" THEN <<[kind |-> "data", bytes |-> world.outfile]>>
    ELSE out

\* C21: a read that follows a completed write of the same start block, block
\* count and data size Z puts on its output exactly the Z bytes the write
\* took from its input; a completed write has stored its input on the
\* namespace; a read that was not completed (here the first command of the
\* script, when the output file does not exist yet) puts no data on its
\* output.
C21_RoundTrip ==
    /\ ReadAfterWrite => ReadOutput = <<[kind |-> "data", bytes |-> WrittenBytes]>>
    /\ (cmd = "write" /\ IoDone /\ args.data_size = (args.nblocks + 1) * BLOCK) =>
           \A b \in 0..args.nblocks : world.media[b] = world.infile[b + 1]
    /\ (cmd = "read" /\ pc = "done" /\ ~IoDone /\ world.script = <<>>) =>
           /\ Shown("data") = {}
           /\ world.outfile = <<>>

\* the run of the regress script: 512 bytes written from a file to block 0
\* and read back into a file, which then holds the bytes of the input
C21_Witness ==
    /\ ReadAfterWrite
    /\ args.data = "file"
    /\ world.script[1].args.data = "file"
    /\ args.nblocks = 0
    /\ args.data_size = BLOCK
    /\ world.outfile = <<"in0">>

====
